---- MODULE Spec2Model ----
(***************************************************************************)
(* A model of script.py: a command-line front end that builds ffmpeg and   *)
(* ffprobe command lines for a directory of audio files and runs them on a *)
(* thread pool.                                                            *)
(*                                                                         *)
(* Strings are sequences of tokens, so that concatenation, str.replace and *)
(* os.path.join act on them as they do in Python.  Floats that the script  *)
(* only halves, doubles and compares (the speed factor) are exact          *)
(* rationals [n, d]; durations are whole seconds.                          *)
(***************************************************************************)
EXTENDS Integers, Sequences, FiniteSets, TLC

VARIABLES
    argv,            \* the command line: [path, op, opt, val]
    cpu,             \* what multiprocessing.cpu_count() returns
    dirs,            \* the directories (and other entries) that exist
    dirs0,           \* history: dirs when directory_setup was called
    pc,              \* position of the main thread
    args,            \* the Namespace parse_args returned
    new_path,        \* directory_setup: the candidate, later the result
    i,               \* directory_setup: the next numeric suffix
    files,           \* the sorted mp3 listing (duration, concat)
    batches,         \* concat_files: input_output_list
    chapters_info,   \* split_chapters: the probed chapter list
    total_duration,  \* convert_duration: the probed duration, -1 before
    sdf,             \* start_duration_filename
    commands,        \* run_commands: the list being mapped
    ret,             \* where run_commands returns to
    poolSize,        \* size of the pool run_commands built, 0 = none
    jobs,            \* per run_commands call, per command: state/starts/rc
    probe,           \* the ffprobe of convert_duration: none/running/done
    temp,            \* temp.mp3: absent / writing / present / removed
    err              \* the exception that ended the program, or "none"

vars == <<argv, cpu, dirs, dirs0, pc, args, new_path, i, files, batches,
          chapters_info, total_duration, sdf, commands, ret, poolSize, jobs,
          probe, temp, err>>

-----------------------------------------------------------------------------
(* Bounds of the model.                                                    *)

MaxExisting == 2     \* candidate names that may exist beforehand
MaxCpu      == 3     \* cpu_count() ranges over 1..MaxCpu
MaxFiles    == 3     \* files a glob may return
MaxChapters == 2     \* chapters a probe may report
MaxTotal    == 19    \* largest probed duration, in units of 5 seconds
MaxMinutes  == 1     \* largest -d value
MaxBatch    == 2     \* largest -bs value

-----------------------------------------------------------------------------
(* Helpers.                                                                *)

Range(s) == {s[k] : k \in DOMAIN s}

\* All orderings of a finite set, as sequences without repetition.
Perms(S) == {p \in [1..Cardinality(S) -> S] : Range(p) = S}

\* Exact rationals [n |-> numerator, d |-> denominator], d > 0.
Rat(n, d) == [n |-> n, d |-> d]
RatLe(a, b) == a.n * b.d <= b.n * a.d
RatEq(a, b) == a.n * b.d = b.n * a.d
RatMul(a, b) == Rat(a.n * b.n, a.d * b.d)
RatHalf(a) == Rat(a.n, a.d * 2)

-----------------------------------------------------------------------------
(* The command line.  A value given to an option is a literal: a decimal   *)
(* literal n/d (d = 1 for an integer literal such as "2", d = 10 for one   *)
(* with a fractional digit such as "2.5") or text that is no number.       *)

NotANumber == [n |-> 0, d |-> 0]

Paths == {<<"a">>, <<"b">>}

Ops == {"type", "speed", "duration", "chapters", "concat"}

SpeedLiterals == {Rat(10, 10), Rat(11, 10), Rat(2, 1), Rat(25, 10),
                  Rat(40, 10), Rat(41, 10), NotANumber}

DurationLiterals == {Rat(m, 1) : m \in -1..MaxMinutes}
                        \cup {Rat(15, 10), NotANumber}

BatchLiterals == {Rat(b, 1) : b \in -1..MaxBatch} \cup {NotANumber}

\* The command lines of the model: the operation, and at most the one
\* option that the operation reads.
CommandLines ==
    {[path |-> p, op |-> o, opt |-> "", val |-> NotANumber] :
         p \in Paths, o \in Ops}
    \cup {[path |-> p, op |-> "speed", opt |-> "-s", val |-> v] :
         p \in Paths, v \in SpeedLiterals}
    \cup {[path |-> p, op |-> "duration", opt |-> "-d", val |-> v] :
         p \in Paths, v \in DurationLiterals}
    \cup {[path |-> p, op |-> "concat", opt |-> "-bs", val |-> v] :
         p \in Paths, v \in BatchLiterals}

\* type=float and type=int of argparse: float() takes any numeric literal,
\* int() only an integer literal.
FloatParses(v) == v.d # 0
IntParses(v) == v.d = 1

\* FloatRange(1.1, 4.0).__contains__
FloatRangeContains(v) == RatLe(Rat(11, 10), v) /\ RatLe(v, Rat(40, 10))

\* Whether parser.parse_args() accepts the command line.
ParserAccepts(a) ==
    CASE a.opt = "-s"  -> FloatParses(a.val) /\ FloatRangeContains(a.val)
      [] a.opt = "-d"  -> IntParses(a.val)
      [] a.opt = "-bs" -> IntParses(a.val)
      [] OTHER         -> TRUE

\* The Namespace parse_args returns, defaults filled in.
Namespace(a) ==
    [path      |-> a.path,
     op        |-> a.op,
     speed     |-> IF a.opt = "-s" THEN a.val ELSE Rat(2, 1),
     duration  |-> IF a.opt = "-d" THEN a.val.n ELSE 60,
     batchsize |-> IF a.opt = "-bs" THEN a.val.n ELSE 0]

NoArgs == [path |-> <<>>, op |-> "", speed |-> Rat(0, 1), duration |-> 0,
           batchsize |-> 0]

-----------------------------------------------------------------------------
(* directory_setup.                                                        *)

\* 'new' + path, then 'new' + str(k) + path for k = 2, 3, ...
NewName(k, path) ==
    IF k = 1 THEN <<"new">> \o path ELSE <<"new", ToString(k)>> \o path

\* Variant: makedirs(name, exist_ok=True), which takes an existing name.
MakedirsExistOk(name, existing) == TRUE

\* os.makedirs(name) raises when name exists, and creates it otherwise.
MakedirsSucceeds(name, existing) == name \notin existing

\* os.path.join(directory, name)
Join(directory, name) == directory \o <<"/">> \o name

-----------------------------------------------------------------------------
(* The initial state: a command line, a machine, a file system.            *)

Init ==
    /\ argv \in CommandLines
    /\ cpu \in 1..MaxCpu
    /\ dirs \in SUBSET {NewName(k, argv.path) : k \in 1..MaxExisting}
    /\ dirs0 = dirs
    /\ pc = "start"
    /\ args = NoArgs
    /\ new_path = <<>>
    /\ i = 0
    /\ files = <<>>
    /\ batches = <<>>
    /\ chapters_info = <<>>
    /\ total_duration = -1
    /\ sdf = <<>>
    /\ commands = <<>>
    /\ ret = ""
    /\ poolSize = 0
    /\ jobs = <<>>
    /\ probe = "none"
    /\ temp = "absent"
    /\ err = "none"

\* parser.parse_args() and the first lines of handle_operation and
\* directory_setup.  A rejected command line ends the program (exit 2).
ParseArgs ==
    /\ pc = "start"
    /\ IF ParserAccepts(argv)
       THEN /\ args' = Namespace(argv)
            /\ new_path' = NewName(1, argv.path)
            /\ i' = 2
            /\ pc' = "makedirs"
            /\ err' = err
       ELSE /\ pc' = "exit"
            /\ err' = "usage"
            /\ UNCHANGED <<args, new_path, i>>
    /\ UNCHANGED <<argv, cpu, dirs, dirs0, files, batches, chapters_info,
                   total_duration, sdf, commands, ret, poolSize, jobs,
                   probe, temp>>

\* The function handle_operation calls next.
Dispatch(op) ==
    CASE op \in {"type", "speed"} -> "convert_"
      [] op = "duration"          -> "convert_duration"
      [] op = "chapters"          -> "split_chapters"
      [] op = "concat"            -> "concat_files"

\* One turn of directory_setup's loop; on success, the return to
\* handle_operation and its dispatch.
Makedirs ==
    /\ pc = "makedirs"
    /\ IF MakedirsSucceeds(new_path, dirs)
       THEN /\ dirs' = dirs \cup {new_path}
            /\ pc' = Dispatch(args.op)
            /\ UNCHANGED <<new_path, i>>
       ELSE /\ new_path' = NewName(i, args.path)
            /\ i' = i + 1
            /\ UNCHANGED <<dirs, pc>>
    /\ UNCHANGED <<argv, cpu, dirs0, args, files, batches, chapters_info,
                   total_duration, sdf, commands, ret, poolSize, jobs,
                   probe, temp, err>>

-----------------------------------------------------------------------------
(* Files of the input directory, and the command strings.                  *)

\* The file names of the model, in the order Python's sorted() gives:
\* "a.m4a" < "a.m4a.m4a" < "a.mp3" < "a.mp3.m4a" < "b.mp3" < "c.mp3".
SortedNames == << <<"a", ".m4a">>, <<"a", ".m4a", ".m4a">>, <<"a", ".mp3">>,
                  <<"a", ".mp3", ".m4a">>, <<"b", ".mp3">>, <<"c", ".mp3">> >>

\* What the input directory may hold when it is listed.
Directories == {d \in SUBSET Range(SortedNames) : Cardinality(d) <= MaxFiles}

\* glob.glob(join(old_path, '*' + ext)), as a set: glob's order is arbitrary.
Glob(old_path, d, ext) == {Join(old_path, f) : f \in {g \in d : g[Len(g)] = ext}}

\* glob.glob(old_path + '/*')
GlobAll(old_path, d) == {Join(old_path, f) : f \in d}

\* os.path.basename
Basename(p) ==
    LET slashes == {k \in DOMAIN p : p[k] = "/"}
        last == IF slashes = {} THEN 0
                ELSE CHOOSE k \in slashes : \A m \in slashes : m <= k
    IN  SubSeq(p, last + 1, Len(p))

\* str.replace(old, new): every occurrence.
Replace(str, old, new) ==
    [k \in DOMAIN str |-> IF str[k] = old THEN new ELSE str[k]]

NameRank(p) == CHOOSE k \in DOMAIN SortedNames : SortedNames[k] = Basename(p)

\* sorted(S) for paths of one directory.
Sorted(S) ==
    CHOOSE p \in Perms(S) :
        \A k, m \in DOMAIN p : k < m => NameRank(p[k]) < NameRank(p[m])

\* separator.join(list)
RECURSIVE JoinWith(_, _)
JoinWith(list, sep) ==
    IF list = <<>> THEN <<>>
    ELSE IF Len(list) = 1 THEN list[1]
    ELSE list[1] \o <<sep>> \o JoinWith(Tail(list), sep)

\* FFMPEG_TEMPLATE.format(input, parameters, output)
Ffmpeg(input, parameters, output) ==
    [input |-> input, params |-> parameters, output |-> output]

-----------------------------------------------------------------------------
(* convert_                                                                *)

\* Variant: the first stage left uncapped (speed_a = 2.0 forgotten).
SpeedAUncapped(speed) == speed

\* The two atempo stages of the speed operation.
SpeedA(speed) == IF ~RatLe(speed, Rat(2, 1)) THEN Rat(2, 1) ELSE speed
SpeedB(speed) == IF ~RatLe(speed, Rat(2, 1)) THEN RatHalf(speed) ELSE Rat(1, 1)

InputFileType(op) == IF op = "speed" THEN ".mp3" ELSE ".m4a"

OutputFile(op, dir, input_f) ==
    IF op = "speed" THEN Join(dir, Basename(input_f))
    ELSE Join(dir, Replace(Basename(input_f), ".m4a", ".mp3"))

Parameters(op, speed) ==
    IF op = "speed"
    THEN [filter |-> "atempo", a |-> SpeedA(speed), b |-> SpeedB(speed)]
    ELSE [filter |-> "none", a |-> Rat(1, 1), b |-> Rat(1, 1)]

ConvertCommands(op, speed, dir, listing) ==
    [k \in DOMAIN listing |->
        Ffmpeg(listing[k], Parameters(op, speed), OutputFile(op, dir, listing[k]))]

Convert ==
    /\ pc = "convert_"
    /\ \E d \in Directories :
         \E listing \in Perms(Glob(args.path, d, InputFileType(args.op))) :
            commands' = ConvertCommands(args.op, args.speed, new_path, listing)
    /\ pc' = "run_commands"
    /\ ret' = "exit"
    /\ UNCHANGED <<argv, cpu, dirs, dirs0, args, new_path, i, files, batches,
                   chapters_info, total_duration, sdf, poolSize, jobs, probe,
                   temp, err>>

-----------------------------------------------------------------------------
(* run_commands: Pool(cpu_count() - 1), then pool.map(subprocess.run, ...) *)

\* The argument run_commands gives to Pool().
PoolProcesses(c) == c - 1

\* Pool(processes) raises ValueError when processes < 1.
PoolAccepts(processes) == processes >= 1

QueuedJobs(cmds) ==
    [k \in DOMAIN cmds |-> [state |-> "queued", starts |-> 0, rc |-> 0]]

Running(js) == {k \in DOMAIN js : js[k].state = "running"}

\* Variant: map_async, which returns once the commands are handed out.
MapNoWait(js) == \A k \in DOMAIN js : js[k].state # "queued"

\* Variant: a map that gives up at the first process that fails.
MapAbortOnFailure(js) ==
    \/ \A k \in DOMAIN js : js[k].state = "exited"
    \/ \E k \in DOMAIN js : js[k].state = "exited" /\ js[k].rc # 0

\* pool.map returns when every call of subprocess.run has returned.
MapComplete(js) == \A k \in DOMAIN js : js[k].state = "exited"

\* The batch that writes temp.mp3: the first one of the duration operation.
WritesTemp(b) == args.op = "duration" /\ b = 1

PoolCreate ==
    /\ pc = "run_commands"
    /\ IF PoolAccepts(PoolProcesses(cpu))
       THEN /\ poolSize' = PoolProcesses(cpu)
            /\ jobs' = Append(jobs, QueuedJobs(commands))
            /\ pc' = "map"
            /\ err' = err
       ELSE /\ pc' = "exit"
            /\ err' = "ValueError: Number of processes must be at least 1"
            /\ UNCHANGED <<poolSize, jobs>>
    /\ UNCHANGED <<argv, cpu, dirs, dirs0, args, new_path, i, files, batches,
                   chapters_info, total_duration, sdf, commands, ret, probe,
                   temp>>

\* An idle worker of the pool takes a command and starts its process.
JobStart ==
    /\ pc = "map"
    /\ LET b == Len(jobs) IN
       \E k \in DOMAIN jobs[b] :
          /\ jobs[b][k].state = "queued"
          /\ Cardinality(Running(jobs[b])) < poolSize
          /\ jobs' = [jobs EXCEPT ![b][k].state = "running",
                                  ![b][k].starts = @ + 1]
          /\ temp' = IF WritesTemp(b) THEN "writing" ELSE temp
    /\ UNCHANGED <<argv, cpu, dirs, dirs0, pc, args, new_path, i, files,
                   batches, chapters_info, total_duration, sdf, commands, ret,
                   poolSize, probe, err>>

\* A process exits, with any exit code.  A concatenation that succeeded has
\* written temp.mp3; one that failed may have left a file or none.
JobExit ==
    /\ \E b \in DOMAIN jobs : \E k \in DOMAIN jobs[b] : \E rc \in {0, 1} :
          /\ jobs[b][k].state = "running"
          /\ jobs' = [jobs EXCEPT ![b][k].state = "exited", ![b][k].rc = rc]
          /\ \/ ~WritesTemp(b) /\ temp' = temp
             \/ WritesTemp(b) /\ temp' = "present"
             \/ WritesTemp(b) /\ rc # 0 /\ temp' = "absent"
    /\ UNCHANGED <<argv, cpu, dirs, dirs0, pc, args, new_path, i, files,
                   batches, chapters_info, total_duration, sdf, commands, ret,
                   poolSize, probe, err>>

MapReturn ==
    /\ pc = "map"
    /\ MapComplete(jobs[Len(jobs)])
    /\ pc' = ret
    /\ UNCHANGED <<argv, cpu, dirs, dirs0, args, new_path, i, files, batches,
                   chapters_info, total_duration, sdf, commands, ret,
                   poolSize, jobs, probe, temp, err>>

-----------------------------------------------------------------------------
(* _concat_files and _split_file                                           *)

\* 'concat:' + '|'.join(input_list) into output_file, one per tuple.
ConcatCommands(input_output_list) ==
    [k \in DOMAIN input_output_list |->
        Ffmpeg(<<"concat:">> \o JoinWith(input_output_list[k].inputs, "|"),
               [filter |-> "copy"],
               input_output_list[k].output)]

\* '-acodec copy -t {duration} -ss {start}', one per tuple.
SplitCommands(path, start_duration_filename) ==
    [k \in DOMAIN start_duration_filename |->
        Ffmpeg(path,
               [filter |-> "copy", t |-> start_duration_filename[k].duration,
                ss |-> start_duration_filename[k].start],
               start_duration_filename[k].output)]

\* 'output{0}.mp3'.format(k)
OutputName(k) == <<"output", ToString(k), ".mp3">>

-----------------------------------------------------------------------------
(* convert_duration                                                        *)

TempFile(dir) == Join(dir, <<"temp", ".mp3">>)

\* The durations ffprobe may report, in seconds.
ProbedDurations == {5 * k : k \in 0..MaxTotal}

\* round(t / d) for t >= 0, d > 0: Python 3 rounds halves to the even side.
RoundDiv(t, d) ==
    LET q == t \div d
        r == t % d
    IN  IF 2 * r < d THEN q
        ELSE IF 2 * r > d THEN q + 1
        ELSE IF q % 2 = 0 THEN q ELSE q + 1

\* num_files = round(total_duration / duration), duration # 0.
NumFiles(total, duration) ==
    IF duration > 0 THEN RoundDiv(total, duration)
    ELSE 0 - RoundDiv(total, 0 - duration)

\* What the last turn of the loop adds to duration.
LastExtra(total, duration) == total % duration

\* The loop of convert_duration from turn k on, with its running start and
\* duration.
RECURSIVE SplitLoop(_, _, _, _, _, _)
SplitLoop(k, num_files, start, duration, total, dir) ==
    IF k >= num_files THEN <<>>
    ELSE LET dur == IF k = num_files - 1
                    THEN duration + LastExtra(total, duration)
                    ELSE duration
         IN  <<[start |-> start, duration |-> dur,
                output |-> Join(dir, OutputName(k))]>>
             \o SplitLoop(k + 1, num_files, start + dur, dur, total, dir)

SplitDirectives(total, duration, dir) ==
    SplitLoop(0, NumFiles(total, duration), 0, duration, total, dir)

\* sorted(glob(...)), then _concat_files([(files, temp_file)]).
DurConcat ==
    /\ pc = "convert_duration"
    /\ \E d \in Directories :
          /\ files' = Sorted(Glob(args.path, d, ".mp3"))
          /\ commands' = ConcatCommands(
                 <<[inputs |-> files', output |-> TempFile(new_path)]>>)
    /\ pc' = "run_commands"
    /\ ret' = "probe"
    /\ UNCHANGED <<argv, cpu, dirs, dirs0, args, new_path, i, batches,
                   chapters_info, total_duration, sdf, poolSize, jobs, probe,
                   temp, err>>

\* subprocess.run(ffprobe ...) starts the probe and waits for it.
ProbeStart ==
    /\ pc = "probe"
    /\ probe' = "running"
    /\ pc' = "probing"
    /\ UNCHANGED <<argv, cpu, dirs, dirs0, args, new_path, i, files, batches,
                   chapters_info, total_duration, sdf, commands, ret,
                   poolSize, jobs, temp, err>>

\* The probe exits.  It prints a duration only for a file that is there;
\* float() of an empty output raises ValueError.
ProbeExit ==
    /\ pc = "probing"
    /\ probe' = "done"
    /\ \/ /\ temp = "present"
          /\ total_duration' \in ProbedDurations
          /\ pc' = "build"
          /\ err' = err
       \/ /\ pc' = "exit"
          /\ err' = "ValueError: could not convert string to float"
          /\ UNCHANGED total_duration
    /\ UNCHANGED <<argv, cpu, dirs, dirs0, args, new_path, i, files, batches,
                   chapters_info, sdf, commands, ret, poolSize, jobs, temp>>

\* round(), the loop, then _split_file(temp_file, start_duration_filename).
DurBuild ==
    /\ pc = "build"
    /\ LET duration == args.duration * 60 IN
       IF duration = 0
       THEN /\ pc' = "exit"
            /\ err' = "ZeroDivisionError"
            /\ UNCHANGED <<sdf, commands, ret>>
       ELSE /\ sdf' = SplitDirectives(total_duration, duration, new_path)
            /\ commands' = SplitCommands(TempFile(new_path), sdf')
            /\ pc' = "run_commands"
            /\ ret' = "remove"
            /\ err' = err
    /\ UNCHANGED <<argv, cpu, dirs, dirs0, args, new_path, i, files, batches,
                   chapters_info, total_duration, poolSize, jobs, probe, temp>>

\* remove(temp_file)
DurRemove ==
    /\ pc = "remove"
    /\ IF temp = "present"
       THEN temp' = "removed" /\ err' = err
       ELSE temp' = temp /\ err' = "FileNotFoundError"
    /\ pc' = "exit"
    /\ UNCHANGED <<argv, cpu, dirs, dirs0, args, new_path, i, files, batches,
                   chapters_info, total_duration, sdf, commands, ret,
                   poolSize, jobs, probe>>

-----------------------------------------------------------------------------
(* split_chapters                                                          *)

Titles == {"Intro", "Outro"}

\* The chapter lists ffprobe may report: any titles; chapter k spans
\* [10 (k - 1), 10 k).
ChapterLists ==
    UNION {[1..n -> Titles] : n \in 0..MaxChapters}

ChapterEntries(titles) ==
    [k \in DOMAIN titles |->
        [start_time |-> 10 * (k - 1), end_time |-> 10 * k,
         title |-> titles[k]]]

\* The loop over chapters_info.
ChapterDirectives(info, dir) ==
    [k \in DOMAIN info |->
        [start    |-> info[k].start_time,
         duration |-> info[k].end_time - info[k].start_time,
         output   |-> Join(dir, <<info[k].title, ".mp3">>)]]

\* glob(...)[0], the probe, json.loads, the loop and _split_file.
SplitChapters ==
    /\ pc = "split_chapters"
    /\ \E d \in Directories :
          \/ /\ d = {}
             /\ pc' = "exit"
             /\ err' = "IndexError"
             /\ UNCHANGED <<chapters_info, sdf, commands, ret>>
          \/ \E filename \in GlobAll(args.path, d) :
                \/ /\ pc' = "exit"
                   /\ err' = "JSONDecodeError"
                   /\ UNCHANGED <<chapters_info, sdf, commands, ret>>
                \/ \E titles \in ChapterLists :
                      /\ chapters_info' = ChapterEntries(titles)
                      /\ sdf' = ChapterDirectives(chapters_info', new_path)
                      /\ commands' = SplitCommands(filename, sdf')
                      /\ pc' = "run_commands"
                      /\ ret' = "exit"
                      /\ err' = err
    /\ UNCHANGED <<argv, cpu, dirs, dirs0, args, new_path, i, files, batches,
                   total_duration, poolSize, jobs, probe, temp>>

-----------------------------------------------------------------------------
(* concat_files                                                            *)

\* range(0, n, step), step # 0, as a sequence.
RangeStep(n, step) ==
    IF step < 0 \/ n <= 0 THEN <<>>
    ELSE [k \in 1..((n + step - 1) \div step) |-> (k - 1) * step]

Min(a, b) == IF a <= b THEN a ELSE b

\* [files[i:i+batch_size] for i in range(0, len(files), batch_size)]
InputLists(fs, batch_size) ==
    LET starts == RangeStep(Len(fs), batch_size)
    IN  [k \in DOMAIN starts |->
            SubSeq(fs, starts[k] + 1, Min(starts[k] + batch_size, Len(fs)))]

\* The batch size after the "0 means all files" substitution.
BatchSize(fs, batch_size) == IF batch_size = 0 THEN Len(fs) ELSE batch_size

InputOutputList(input_lists, dir) ==
    [k \in DOMAIN input_lists |->
        [inputs |-> input_lists[k], output |-> Join(dir, OutputName(k - 1))]]

ConcatFiles ==
    /\ pc = "concat_files"
    /\ \E d \in Directories :
          /\ files' = Sorted(Glob(args.path, d, ".mp3"))
          /\ LET batch_size == BatchSize(files', args.batchsize) IN
             IF batch_size = 0
             THEN /\ pc' = "exit"
                  /\ err' = "ValueError: range() arg 3 must not be zero"
                  /\ UNCHANGED <<batches, commands, ret>>
             ELSE /\ batches' = InputOutputList(
                          InputLists(files', batch_size), new_path)
                  /\ commands' = ConcatCommands(batches')
                  /\ pc' = "run_commands"
                  /\ ret' = "exit"
                  /\ err' = err
    /\ UNCHANGED <<argv, cpu, dirs, dirs0, args, new_path, i, chapters_info,
                   total_duration, sdf, poolSize, jobs, probe, temp>>

-----------------------------------------------------------------------------

Next ==
    \/ ParseArgs
    \/ Makedirs
    \/ Convert
    \/ DurConcat
    \/ ProbeStart
    \/ ProbeExit
    \/ DurBuild
    \/ DurRemove
    \/ SplitChapters
    \/ ConcatFiles
    \/ PoolCreate
    \/ JobStart
    \/ JobExit
    \/ MapReturn

Spec == Init /\ [][Next]_vars

-----------------------------------------------------------------------------
(* Properties.                                                             *)

Max(a, b) == IF a >= b THEN a ELSE b

RECURSIVE SumSeq(_)
SumSeq(s) == IF s = <<>> THEN 0 ELSE Head(s) + SumSeq(Tail(s))

RECURSIVE Flatten(_)
Flatten(ss) == IF ss = <<>> THEN <<>> ELSE Head(ss) \o Flatten(Tail(ss))

\* The batches whose run_commands call has returned.
Returned == {b \in DOMAIN jobs : b < Len(jobs) \/ pc # "map"}

\* C1: in duration-split, for a probed total T > 0 and a target D > 0, the
\* durations of the segments built sum to T; T = 90 and D = 60 give the two
\* segments [0, 60) and [60, 90).  Stated for T >= D: the specification
\* leaves open what a total shorter than the target should give.
C1_SegmentsSumToTotal ==
    (args.op = "duration" /\ ret = "remove" /\ args.duration > 0
        /\ total_duration >= args.duration * 60)
    => /\ SumSeq([k \in DOMAIN sdf |-> sdf[k].duration]) = total_duration
       /\ (total_duration = 90 /\ args.duration = 1)
           => /\ Len(sdf) = 2
              /\ sdf[1].start = 0 /\ sdf[1].duration = 60
              /\ sdf[2].start = 60 /\ sdf[2].duration = 30

\* C2: directory_setup returns a name that did not exist when it was
\* called, never one that did, and on return that directory exists, created
\* by this call.
C2_FreshDirectory ==
    (pc \notin {"start", "makedirs"} /\ err # "usage")
    => /\ new_path \notin dirs0
       /\ new_path \in dirs

\* C2 witness: both earlier candidates existed, and the third was returned.
C2_Witness ==
    /\ pc \notin {"start", "makedirs"} /\ err # "usage"
    /\ dirs0 = {NewName(1, args.path), NewName(2, args.path)}
    /\ new_path = NewName(3, args.path)
    /\ new_path \in dirs

\* C3: in concat, for every listing and every batch size the parser
\* accepts, the batches in index order are the sorted listing cut in
\* pieces (each file in exactly one batch, order kept) and no batch is
\* longer than the configured size (0 standing for all the files).
C3_BatchesPartition ==
    (args.op = "concat" /\ ret = "exit")
    => /\ Flatten([k \in DOMAIN batches |-> batches[k].inputs]) = files
       /\ \A k \in DOMAIN batches :
             Len(batches[k].inputs) <= BatchSize(files, args.batchsize)

\* C4: when chapters runs on a file whose chapter list is empty, no Job is
\* produced or run and, at the end of the program, the output directory
\* directory_setup made has been removed.
C4_NoChaptersRemovesDirectory ==
    (args.op = "chapters" /\ ret = "exit" /\ chapters_info = <<>>)
    => /\ commands = <<>>
       /\ \A b \in DOMAIN jobs : jobs[b] = <<>>
       /\ (pc = "exit" /\ err = "none") => new_path \notin dirs

\* The command lines C5 calls out of range or malformed.
InvalidOption(a) ==
    CASE a.opt = "-s"  -> ~FloatParses(a.val) \/ ~FloatRangeContains(a.val)
      [] a.opt = "-d"  -> ~IntParses(a.val) \/ a.val.n <= 0
      [] a.opt = "-bs" -> ~IntParses(a.val) \/ a.val.n < 0
      [] OTHER         -> FALSE

\* C5: a command line with an out-of-range or malformed option value is
\* rejected by the parser before any work: no directory is created and no
\* external process (Job or probe) is started.
C5_InvalidRejectedBeforeWork ==
    InvalidOption(argv)
    => /\ pc = "exit" => err = "usage"
       /\ dirs = dirs0
       /\ jobs = <<>>
       /\ probe = "none"

\* C6: in the speed operation, for every accepted factor f, the two atempo
\* stages of every command multiply to f; for f > 2 they are 2 and f / 2,
\* for f <= 2 they are f and 1; and neither stage exceeds 2.
C6_TempoStages ==
    (args.op = "speed" /\ ret = "exit")
    => \A k \in DOMAIN commands :
          LET f == args.speed
              a == commands[k].params.a
              b == commands[k].params.b
          IN  /\ RatLe(Rat(11, 10), f) /\ RatLe(f, Rat(4, 1))
              /\ RatEq(RatMul(a, b), f)
              /\ ~RatLe(f, Rat(2, 1))
                    => RatEq(a, Rat(2, 1)) /\ RatEq(RatMul(b, Rat(2, 1)), f)
              /\ RatLe(f, Rat(2, 1)) => RatEq(a, f) /\ RatEq(b, Rat(1, 1))
              /\ RatLe(a, Rat(2, 1))
              /\ RatLe(b, Rat(2, 1))

\* C6 witness: a command built for the factor 2.5, with stages 2 and 1.25.
C6_Witness ==
    /\ args.op = "speed" /\ ret = "exit"
    /\ Len(commands) >= 1
    /\ RatEq(args.speed, Rat(25, 10))
    /\ RatEq(commands[1].params.a, Rat(2, 1))
    /\ RatEq(commands[1].params.b, Rat(125, 100))

\* C7: in duration-split, the concatenation Job has terminated before the
\* probe is issued, the probe has completed before any split Job is built
\* or started, every split Job has terminated before temp.mp3 is deleted,
\* and a split Job only runs while temp.mp3 is there, fully written.
C7_DurationOrdering ==
    args.op = "duration"
    => /\ probe # "none"
          => Len(jobs) >= 1 /\ \A k \in DOMAIN jobs[1] :
                                   jobs[1][k].state = "exited"
       /\ (Len(jobs) >= 2 \/ sdf # <<>> \/ ret = "remove")
          => probe = "done"
       /\ Len(jobs) >= 2
          => \A k \in DOMAIN jobs[2] :
                jobs[2][k].state = "running" => temp = "present"
       /\ temp = "removed"
          => Len(jobs) >= 2 /\ \A k \in DOMAIN jobs[2] :
                                   jobs[2][k].state = "exited"

\* C7 witness: two split Jobs have run and temp.mp3 has been deleted.
C7_Witness ==
    /\ args.op = "duration"
    /\ temp = "removed"
    /\ Len(jobs) = 2
    /\ Len(jobs[2]) = 2
    /\ probe = "done"

\* C8: for every CPU count c >= 1, run_commands builds a pool of
\* max(1, c - 1) workers, so that the Jobs run, and never more than
\* max(1, c - 1) of them at once.
C8_PoolOfAtLeastOne ==
    /\ err # "ValueError: Number of processes must be at least 1"
    /\ pc = "map"
       => /\ poolSize = Max(1, cpu - 1)
          /\ Cardinality(Running(jobs[Len(jobs)])) <= Max(1, cpu - 1)

\* C9: when run_commands has returned, every Job of its list has been
\* started exactly once and has terminated, whatever the exit codes; no
\* Job is ever started twice, and a failed Job ends neither the batch nor
\* the program.
C9_MapRunsEveryJobOnce ==
    /\ \A b \in DOMAIN jobs : \A k \in DOMAIN jobs[b] :
          /\ jobs[b][k].starts <= 1
          /\ jobs[b][k].state # "queued" => jobs[b][k].starts = 1
    /\ \A b \in Returned : \A k \in DOMAIN jobs[b] :
          jobs[b][k].state = "exited" /\ jobs[b][k].starts = 1
    /\ (Len(jobs) >= 1 /\ pc # "run_commands")
          => Len(jobs[Len(jobs)]) = Len(commands)

\* C9 witness: run_commands returned from a batch in which one Job failed
\* and another succeeded, and the program ended without an exception.
C9_Witness ==
    /\ pc = "exit" /\ err = "none"
    /\ \E b \in Returned : \E k, m \in DOMAIN jobs[b] :
          /\ jobs[b][k].state = "exited" /\ jobs[b][k].rc = 1
          /\ jobs[b][m].state = "exited" /\ jobs[b][m].rc = 0

\* C10: within one batch that run_commands maps over its pool, no two Jobs
\* have the same output path.
C10_DistinctOutputs ==
    pc = "map"
    => \A k, m \in DOMAIN commands :
          k # m => commands[k].output # commands[m].output

====
